---- MODULE Spec2Model ----
(***************************************************************************)
(* The project access token controller of provider-gitlab: the observed-   *)
(* state helpers (IsRevoked, ExpiresWithin, TotalDuration, CopyFromToken),  *)
(* late initialisation, and the external client's Observe / Create /       *)
(* Update (rotate) / Delete, run against a model of the GitLab service.    *)
(*                                                                         *)
(* Time and durations are integers counted in units of six hours, so that  *)
(* 30h, 48h and 60h are whole numbers.  A Go pointer is a sequence of      *)
(* length at most one: Nil is <<>>, Ptr(v) is <<v>>.  A Go string is a     *)
(* sequence of one-character strings.                                      *)
(***************************************************************************)
EXTENDS Integers, Sequences, FiniteSets, TLC

VARIABLES
    now,          \* time.Now(), in six-hour units since a midnight UTC
    forProvider,  \* cr.Spec.ForProvider  (AccessTokenParameters)
    atProvider,   \* cr.Status.AtProvider (AccessTokenObservation)
    externalName, \* meta.GetExternalName(cr), "" when not set
    remote,       \* GitLab: token id -> Nil or Ptr(ProjectAccessToken)
    nextID,       \* GitLab: the next token id it hands out
    res           \* what the last Observe/Create/Update/Delete returned

vars == <<now, forProvider, atProvider, externalName, remote, nextID, res>>

----
\* Bounds of the model.
MaxTicks == 2
MaxID == 2
\* The observations and durations the methods are tried on.
MaxTime == 30
MaxDuration == 33

----
\* Durations, in six-hour units.
Day == 4
DefaultAccessTokenRotateThreshold == 7 * Day
DefaultAccessTokenMaxDuration == 365 * Day

\* Error texts.
errNotAccessToken == "managed resource is not a Gitlab accesstoken custom resource"
errExternalNameNotInt == "custom resource external name is not an integer"
errFailedParseID == "cannot parse Access Token ID to int"
errCreateFailed == "cannot create Gitlab accesstoken"
errDeleteFailed == "cannot delete Gitlab accesstoken"
errAccessTokentNotFound == "cannot find Gitlab accesstoken"
errMissingProjectID == "missing Spec.ForProvider.ProjectID"
errRotationFailed == "access token rotation failed"
\* A nil pointer dereference: the handler does not return.
errNilDereference == "panic: invalid memory address or nil pointer dereference"
NoError == ""

----
\* Pointers.
Nil == <<>>
Ptr(v) == <<v>>
Deref(p) == p[1]

\* time.Duration.Abs
Abs(d) == IF d < 0 THEN -d ELSE d

\* the builtin max
Max(a, b) == IF a >= b THEN a ELSE b

\* time.Time.Truncate(d): round t down to a multiple of d since the zero time.
Truncate(t, d) == t - (t % d)

----
\* strconv.Itoa and strconv.Atoi over strings as sequences of characters.
Digits == <<"0", "1", "2", "3", "4", "5", "6", "7", "8", "9">>

DigitValue(c) == (CHOOSE i \in 1..10 : Digits[i] = c) - 1

IsDigit(c) == \E i \in 1..10 : Digits[i] = c

RECURSIVE ItoaNat(_)
ItoaNat(n) == IF n < 10 THEN <<Digits[n + 1]>>
              ELSE Append(ItoaNat(n \div 10), Digits[(n % 10) + 1])

Itoa(n) == IF n < 0 THEN <<"-">> \o ItoaNat(-n) ELSE ItoaNat(n)

RECURSIVE AtoiNat(_)
AtoiNat(s) == IF Len(s) = 0 THEN 0
              ELSE 10 * AtoiNat(SubSeq(s, 1, Len(s) - 1)) + DigitValue(s[Len(s)])

\* Atoi with the error dropped: what does not parse is 0.
Atoi_ErrorIgnored(s) ==
    LET signed == Len(s) > 0 /\ s[1] \in {"+", "-"}
        body == IF signed THEN Tail(s) ELSE s
    IN  IF Len(body) = 0 \/ \E i \in 1..Len(body) : ~IsDigit(body[i])
        THEN [ok |-> TRUE, val |-> 0]
        ELSE [ok |-> TRUE,
              val |-> IF signed /\ s[1] = "-" THEN -AtoiNat(body) ELSE AtoiNat(body)]

\* [ok |-> FALSE] is the *NumError result.
Atoi(s) ==
    LET signed == Len(s) > 0 /\ s[1] \in {"+", "-"}
        body == IF signed THEN Tail(s) ELSE s
    IN  IF Len(body) = 0 \/ \E i \in 1..Len(body) : ~IsDigit(body[i])
        THEN [ok |-> FALSE, val |-> 0]
        ELSE [ok |-> TRUE,
              val |-> IF signed /\ s[1] = "-" THEN -AtoiNat(body) ELSE AtoiNat(body)]

----
\* AccessTokenObservation and its methods.
EmptyObservation ==
    [TokenID |-> Nil, ExpiresAt |-> Nil, CreatedAt |-> Nil,
     Name |-> Nil, Revoked |-> Nil, Active |-> Nil]

IsRevoked(at) == IF at.Revoked = Nil THEN FALSE ELSE Deref(at.Revoked)

\* t is time.Now()
ExpiresWithin_Signed(at, d, t) ==
    IF at.ExpiresAt = Nil THEN FALSE
    ELSE Deref(at.ExpiresAt) - d < t

ExpiresWithin(at, d, t) ==
    IF at.ExpiresAt = Nil THEN FALSE
    ELSE Deref(at.ExpiresAt) - Abs(d) < t

TotalDuration_Reversed(at) ==
    IF at.ExpiresAt = Nil \/ at.CreatedAt = Nil
    THEN DefaultAccessTokenMaxDuration
    ELSE Deref(at.CreatedAt) - Deref(at.ExpiresAt)

TotalDuration(at) ==
    IF at.ExpiresAt = Nil \/ at.CreatedAt = Nil
    THEN DefaultAccessTokenMaxDuration
    ELSE Deref(at.ExpiresAt) - Deref(at.CreatedAt)

CopyFromToken(at, accessToken) ==
    [at EXCEPT !.TokenID = Ptr(accessToken.ID),
               !.Name = Ptr(accessToken.Name),
               !.Active = Ptr(accessToken.Active),
               !.Revoked = Ptr(accessToken.Revoked),
               !.CreatedAt = IF accessToken.CreatedAt # Nil
                             THEN Ptr(Deref(accessToken.CreatedAt)) ELSE @,
               !.ExpiresAt = IF accessToken.ExpiresAt # Nil
                             THEN Ptr(Deref(accessToken.ExpiresAt)) ELSE @]

\* lateInitializeProjectAccessToken: the parameters after filling.
lateInitializeProjectAccessToken_Overwriting(in, accessToken) ==
    [in EXCEPT !.AccessLevel = Ptr(accessToken.AccessLevel),
               !.ExpiresAt = IF accessToken.ExpiresAt # Nil
                             THEN Ptr(Deref(accessToken.ExpiresAt)) ELSE @]

lateInitializeProjectAccessToken_ExpiryFromRecord(in, accessToken) ==
    [in EXCEPT !.AccessLevel = IF @ = Nil THEN Ptr(accessToken.AccessLevel) ELSE @,
               !.ExpiresAt = IF accessToken.ExpiresAt # Nil
                             THEN Ptr(Deref(accessToken.ExpiresAt)) ELSE @]

lateInitializeProjectAccessToken_DefaultingThreshold(in, accessToken) ==
    [in EXCEPT !.AccessLevel = IF @ = Nil THEN Ptr(accessToken.AccessLevel) ELSE @,
               !.ExpiresAt = IF @ = Nil /\ accessToken.ExpiresAt # Nil
                             THEN Ptr(Deref(accessToken.ExpiresAt)) ELSE @,
               !.RotateThreshold = IF @ = Nil
                                   THEN Ptr(DefaultAccessTokenRotateThreshold) ELSE @]

lateInitializeProjectAccessToken(in, accessToken) ==
    [in EXCEPT !.AccessLevel = IF @ = Nil THEN Ptr(accessToken.AccessLevel) ELSE @,
               !.ExpiresAt = IF @ = Nil /\ accessToken.ExpiresAt # Nil
                             THEN Ptr(Deref(accessToken.ExpiresAt)) ELSE @]

\* GenerateCreateProjectAccessTokenOptions
GenerateCreateProjectAccessTokenOptions(name, p) ==
    [Name |-> Ptr(name), Scopes |-> Ptr(p.Scopes),
     ExpiresAt |-> IF p.ExpiresAt # Nil THEN Ptr(Deref(p.ExpiresAt)) ELSE Nil,
     AccessLevel |-> IF p.AccessLevel # Nil THEN Ptr(Deref(p.AccessLevel)) ELSE Nil]

----
\* What an operation hands back to the reconciler: managed.ExternalObservation,
\* ExternalCreation, ExternalUpdate and the error, plus the remote calls it made
\* and the HTTP status of the service's answer (0 when it made no call).
Result(op, err, calls, status) ==
    [op |-> op, err |-> err, calls |-> calls, status |-> status,
     ResourceExists |-> FALSE, ResourceUpToDate |-> FALSE,
     ResourceLateInitialized |-> FALSE, ExternalNameAssigned |-> FALSE,
     ConnectionDetails |-> Nil]

NoResult == Result("", NoError, <<>>, 0)

\* A call of the service: the method, the token id and the expiration passed.
Call(fn, id, expiresAt) == [fn |-> fn, id |-> id, ExpiresAt |-> expiresAt]

----
\* The GitLab service behind AccessTokenClient.  A reply is
\* [err, res, at, remote, nextID]: err is whether the Go error is non-nil, res
\* the HTTP status of the response, at the token record returned.
ServerDefaultAccessLevel == 40

NoToken ==
    [ID |-> 0, Name |-> <<>>, Active |-> FALSE, Revoked |-> FALSE,
     CreatedAt |-> Nil, ExpiresAt |-> Nil, AccessLevel |-> 0, Token |-> <<>>]

\* The plaintext of the token the service issues under an id.
TokenSecret(id) == <<"g", "l", "p", "a", "t", "-">> \o Itoa(id)

Present(rem, id) == id \in DOMAIN rem /\ rem[id] # Nil

Reply(err, status, at, rem, nid) ==
    [err |-> err, res |-> status, at |-> at, remote |-> rem, nextID |-> nid]

\* gitlab.ISOTime travels as a date: the service sees midnight UTC of that day.
ISOTime(t) == Truncate(t, Day)

\* blank: the timestamps the service leaves out of the record it returns.
Blanked(at, blank) ==
    [at EXCEPT !.CreatedAt = IF "CreatedAt" \in blank THEN Nil ELSE @,
               !.ExpiresAt = IF "ExpiresAt" \in blank THEN Nil ELSE @]

GetProjectAccessToken(rem, nid, pid, id, fail) ==
    IF fail THEN Reply(TRUE, 500, NoToken, rem, nid)
    ELSE IF ~Present(rem, id) THEN Reply(TRUE, 404, NoToken, rem, nid)
    ELSE Reply(FALSE, 200, Deref(rem[id]), rem, nid)

CreateProjectAccessToken(rem, nid, pid, opt, fail, blank, t) ==
    IF fail THEN Reply(TRUE, 500, NoToken, rem, nid)
    ELSE LET at == Blanked(
                 [ID |-> nid, Name |-> Deref(opt.Name), Active |-> TRUE,
                  Revoked |-> FALSE, CreatedAt |-> Ptr(t),
                  ExpiresAt |-> IF opt.ExpiresAt # Nil
                                THEN Ptr(ISOTime(Deref(opt.ExpiresAt)))
                                ELSE Ptr(ISOTime(t + DefaultAccessTokenMaxDuration)),
                  AccessLevel |-> IF opt.AccessLevel # Nil
                                  THEN Deref(opt.AccessLevel)
                                  ELSE ServerDefaultAccessLevel,
                  Token |-> TokenSecret(nid)], blank)
         IN  Reply(FALSE, 201, at, [rem EXCEPT ![nid] = Ptr(at)], nid + 1)

\* Rotation replaces the record: under the same id, or under a new one.
RotateProjectAccessToken(rem, nid, pid, id, opt, fail, sameID, blank, t) ==
    IF fail THEN Reply(TRUE, 500, NoToken, rem, nid)
    ELSE IF ~Present(rem, id) THEN Reply(TRUE, 404, NoToken, rem, nid)
    ELSE LET old == Deref(rem[id])
             newID == IF sameID THEN id ELSE nid
             at == Blanked(
                 [old EXCEPT !.ID = newID, !.Active = TRUE, !.Revoked = FALSE,
                             !.CreatedAt = Ptr(t),
                             !.ExpiresAt = Ptr(ISOTime(Deref(opt.ExpiresAt))),
                             !.Token = TokenSecret(newID)], blank)
         IN  Reply(FALSE, 200, at,
                   [[rem EXCEPT ![id] = Nil] EXCEPT ![newID] = Ptr(at)],
                   IF sameID THEN nid ELSE nid + 1)

RevokeProjectAccessToken(rem, nid, pid, id, fail) ==
    IF fail THEN Reply(TRUE, 500, NoToken, rem, nid)
    ELSE IF ~Present(rem, id) THEN Reply(TRUE, 404, NoToken, rem, nid)
    ELSE Reply(FALSE, 204, NoToken, [rem EXCEPT ![id] = Nil], nid)

\* clients.IsResponseNotFound
IsResponseNotFound(status) == status = 404

----
\* The external client.  Each handler is given the custom resource (fp =
\* Spec.ForProvider, ap = Status.AtProvider, en = the external name), the
\* service (rem, nid), how the service answers (fail, sameID, blank) and the
\* time t, and yields the resource and the service after it, with its result.
Outcome(fp, ap, en, rem, nid, result) ==
    [forProvider |-> fp, atProvider |-> ap, externalName |-> en,
     remote |-> rem, nextID |-> nid, res |-> result]

\* Observe's threshold: the caller's, or the default.
ObserveThreshold_AlwaysDefault(current) == DefaultAccessTokenRotateThreshold

ObserveThreshold(current) ==
    IF current.RotateThreshold # Nil
    THEN Abs(Deref(current.RotateThreshold))
    ELSE DefaultAccessTokenRotateThreshold

\* What Observe makes of a failed fetch: "not found" is no error.
FetchError_Swallowed(status) == NoError

FetchError(status) ==
    IF IsResponseNotFound(status) THEN NoError ELSE errAccessTokentNotFound

\* ResourceLateInitialized: !cmp.Equal(current, &cr.Spec.ForProvider)
LateInitialized_Negated(current, fp2) == current = fp2

LateInitialized(current, fp2) == current # fp2

\* Observe testing ProjectID before the external name.
ObserveCall_ProjectIDFirst(fp, ap, en, rem, nid, fail, t) ==
    LET accessTokenID == Atoi(en)
        early(err, calls, status) ==
            Outcome(fp, ap, en, rem, nid, Result("Observe", err, calls, status))
    IN  IF fp.ProjectID = Nil THEN early(errMissingProjectID, <<>>, 0)
        ELSE IF en = <<>> THEN early(NoError, <<>>, 0)
        ELSE IF ~accessTokenID.ok THEN early(errFailedParseID, <<>>, 0)
        ELSE
          LET reply == GetProjectAccessToken(rem, nid, Deref(fp.ProjectID),
                                             accessTokenID.val, fail)
              calls == <<Call("GetProjectAccessToken", accessTokenID.val, Nil)>>
          IN  IF reply.err
              THEN early(FetchError(reply.res), calls, reply.res)
              ELSE
                LET ap2 == CopyFromToken(ap, reply.at)
                    fp2 == lateInitializeProjectAccessToken(fp, reply.at)
                IN  Outcome(fp2, ap2, en, reply.remote, reply.nextID,
                      [Result("Observe", NoError, calls, reply.res) EXCEPT
                         !.ResourceExists = TRUE,
                         !.ResourceUpToDate =
                             ~IsRevoked(ap2)
                             /\ ~ExpiresWithin(ap2, ObserveThreshold(fp), t),
                         !.ResourceLateInitialized = LateInitialized(fp, fp2)])

ObserveCall(fp, ap, en, rem, nid, fail, t) ==
    LET accessTokenID == Atoi(en)
        early(err, calls, status) ==
            Outcome(fp, ap, en, rem, nid, Result("Observe", err, calls, status))
    IN  IF en = <<>> THEN early(NoError, <<>>, 0)
        ELSE IF ~accessTokenID.ok THEN early(errFailedParseID, <<>>, 0)
        ELSE IF fp.ProjectID = Nil THEN early(errMissingProjectID, <<>>, 0)
        ELSE
          LET reply == GetProjectAccessToken(rem, nid, Deref(fp.ProjectID),
                                             accessTokenID.val, fail)
              calls == <<Call("GetProjectAccessToken", accessTokenID.val, Nil)>>
          IN  IF reply.err
              THEN early(FetchError(reply.res), calls, reply.res)
              ELSE
                LET ap2 == CopyFromToken(ap, reply.at)
                    current == fp
                    fp2 == lateInitializeProjectAccessToken(fp, reply.at)
                    threshold == ObserveThreshold(current)
                IN  Outcome(fp2, ap2, en, reply.remote, reply.nextID,
                      [Result("Observe", NoError, calls, reply.res) EXCEPT
                         !.ResourceExists = TRUE,
                         !.ResourceUpToDate =
                             ~IsRevoked(ap2) /\ ~ExpiresWithin(ap2, threshold, t),
                         !.ResourceLateInitialized = LateInitialized(current, fp2)])

\* meta.SetExternalName(cr, strconv.Itoa(at.ID)): the external name after it.
SetExternalName_Skipped(en, id) == en

SetExternalName_Token(en, id) == TokenSecret(id)

SetExternalName(en, id) == Itoa(id)

\* Create without the test of ProjectID.
CreateCall_Unchecked(fp, ap, en, name, rem, nid, fail, blank, t) ==
    LET reply == CreateProjectAccessToken(rem, nid, fp.ProjectID,
                     GenerateCreateProjectAccessTokenOptions(name, fp),
                     fail, blank, t)
        calls == <<Call("CreateProjectAccessToken", 0, fp.ExpiresAt)>>
    IN  IF reply.err
        THEN Outcome(fp, ap, en, rem, nid,
                     Result("Create", errCreateFailed, calls, reply.res))
        ELSE Outcome(fp, CopyFromToken(ap, reply.at),
                     SetExternalName(en, reply.at.ID),
                     reply.remote, reply.nextID,
                     [Result("Create", NoError, calls, reply.res) EXCEPT
                        !.ExternalNameAssigned = TRUE,
                        !.ConnectionDetails = Ptr(reply.at.Token)])

\* Create binding the external name before looking at the error.
CreateCall_BoundBeforeCheck(fp, ap, en, name, rem, nid, fail, blank, t) ==
    LET early(err, calls, status) ==
            Outcome(fp, ap, en, rem, nid, Result("Create", err, calls, status))
    IN  IF fp.ProjectID = Nil THEN early(errMissingProjectID, <<>>, 0)
        ELSE
          LET reply == CreateProjectAccessToken(rem, nid, Deref(fp.ProjectID),
                           GenerateCreateProjectAccessTokenOptions(name, fp),
                           fail, blank, t)
              calls == <<Call("CreateProjectAccessToken", 0, fp.ExpiresAt)>>
          IN  IF reply.err
              THEN Outcome(fp, ap, SetExternalName(en, reply.at.ID), rem, nid,
                           Result("Create", errCreateFailed, calls, reply.res))
              ELSE Outcome(fp, CopyFromToken(ap, reply.at),
                           SetExternalName(en, reply.at.ID),
                           reply.remote, reply.nextID,
                           [Result("Create", NoError, calls, reply.res) EXCEPT
                              !.ExternalNameAssigned = TRUE,
                              !.ConnectionDetails = Ptr(reply.at.Token)])

CreateCall(fp, ap, en, name, rem, nid, fail, blank, t) ==
    LET early(err, calls, status) ==
            Outcome(fp, ap, en, rem, nid, Result("Create", err, calls, status))
    IN  IF fp.ProjectID = Nil THEN early(errMissingProjectID, <<>>, 0)
        ELSE
          LET reply == CreateProjectAccessToken(rem, nid, Deref(fp.ProjectID),
                           GenerateCreateProjectAccessTokenOptions(name, fp),
                           fail, blank, t)
              calls == <<Call("CreateProjectAccessToken", 0, fp.ExpiresAt)>>
          IN  IF reply.err THEN early(errCreateFailed, calls, reply.res)
              ELSE Outcome(fp, CopyFromToken(ap, reply.at),
                           SetExternalName(en, reply.at.ID),
                           reply.remote, reply.nextID,
                           [Result("Create", NoError, calls, reply.res) EXCEPT
                              !.ExternalNameAssigned = TRUE,
                              !.ConnectionDetails = Ptr(reply.at.Token)])

\* The time to live of the next token.
RotateTTL_OnceTheThreshold(fp, ap) ==
    IF fp.RotateThreshold # Nil
    THEN Max(TotalDuration(ap), Deref(fp.RotateThreshold))
    ELSE TotalDuration(ap)

RotateTTL(fp, ap) ==
    IF fp.RotateThreshold # Nil
    THEN Max(TotalDuration(ap), Deref(fp.RotateThreshold) * 2)
    ELSE TotalDuration(ap)

\* The expiration Update asks for.
RotateExpiresAt(fp, ap, t) == Truncate(t + RotateTTL(fp, ap), Day)

UpdateCall(fp, ap, en, rem, nid, fail, sameID, blank, t) ==
    LET accessTokenID == Atoi(en)
        early(err, calls, status) ==
            Outcome(fp, ap, en, rem, nid, Result("Update", err, calls, status))
        expiresAt == RotateExpiresAt(fp, ap, t)
    IN  IF en = <<>> THEN early(errNotAccessToken, <<>>, 0)
        ELSE IF ~accessTokenID.ok THEN early(errFailedParseID, <<>>, 0)
        \* *cr.Spec.ForProvider.ProjectID, evaluated for the call
        ELSE IF fp.ProjectID = Nil THEN early(errNilDereference, <<>>, 0)
        ELSE
          LET reply == RotateProjectAccessToken(rem, nid, Deref(fp.ProjectID),
                           accessTokenID.val, [ExpiresAt |-> Ptr(expiresAt)],
                           fail, sameID, blank, t)
              calls == <<Call("RotateProjectAccessToken", accessTokenID.val, Ptr(expiresAt))>>
          IN  IF reply.err THEN early(errRotationFailed, calls, reply.res)
              ELSE Outcome(fp, CopyFromToken(ap, reply.at),
                           SetExternalName(en, reply.at.ID),
                           reply.remote, reply.nextID,
                           [Result("Update", NoError, calls, reply.res) EXCEPT
                              !.ConnectionDetails = Ptr(reply.at.Token)])

DeleteCall(fp, ap, en, rem, nid, fail) ==
    LET accessTokenID == Atoi(en)
        early(err, calls, status) ==
            Outcome(fp, ap, en, rem, nid, Result("Delete", err, calls, status))
    IN  IF ~accessTokenID.ok THEN early(errExternalNameNotInt, <<>>, 0)
        ELSE IF fp.ProjectID = Nil THEN early(errMissingProjectID, <<>>, 0)
        ELSE
          LET reply == RevokeProjectAccessToken(rem, nid, Deref(fp.ProjectID),
                                                accessTokenID.val, fail)
              calls == <<Call("RevokeProjectAccessToken", accessTokenID.val, Nil)>>
          IN  Outcome(fp, ap, en, reply.remote, reply.nextID,
                      Result("Delete", IF reply.err THEN errDeleteFailed ELSE NoError,
                             calls, reply.res))

----
\* The resources the model starts from.
ProjectIDs == {Nil, Ptr(<<"p">>)}
ExpiresAts == {Nil, Ptr(2 * Day)}
RotateThresholds == {Nil, Ptr(5), Ptr(-5)}
AccessLevels == {Nil, Ptr(30)}
ExternalNames == {<<>>, <<"a">>, <<"1">>}
Blanks == {{}, {"ExpiresAt"}, {"CreatedAt"}}

TokenName == <<"t", "o", "k">>

Init ==
    /\ now = 0
    /\ \E pid \in ProjectIDs, ea \in ExpiresAts, rt \in RotateThresholds,
          al \in AccessLevels :
          forProvider = [ProjectID |-> pid, ExpiresAt |-> ea, RotateThreshold |-> rt,
                         AccessLevel |-> al, Scopes |-> <<"api">>, Name |-> TokenName]
    /\ atProvider = EmptyObservation
    /\ externalName \in ExternalNames
    /\ remote = [id \in 1..MaxID |-> Nil]
    /\ nextID = 1
    /\ res = NoResult

Observe ==
    \E fail \in BOOLEAN :
        LET o == ObserveCall(forProvider, atProvider, externalName, remote, nextID,
                             fail, now)
        IN  /\ forProvider' = o.forProvider
            /\ atProvider' = o.atProvider
            /\ externalName' = o.externalName
            /\ remote' = o.remote
            /\ nextID' = o.nextID
            /\ res' = o.res
            /\ UNCHANGED now

\* The managed reconciler creates only after an Observe that reported the
\* resource absent; it updates and deletes in any state.
Create ==
    /\ res.op = "Observe" /\ res.err = NoError /\ ~res.ResourceExists
    /\ nextID <= MaxID
    /\ \E fail \in BOOLEAN, blank \in Blanks :
        \* a failed call returns no record
        /\ fail => blank = {}
        /\ LET o == CreateCall(forProvider, atProvider, externalName, TokenName,
                               remote, nextID, fail, blank, now)
           IN  /\ forProvider' = o.forProvider
               /\ atProvider' = o.atProvider
               /\ externalName' = o.externalName
               /\ remote' = o.remote
               /\ nextID' = o.nextID
               /\ res' = o.res
               /\ UNCHANGED now

Update ==
    \E fail \in BOOLEAN, sameID \in BOOLEAN, blank \in Blanks :
        /\ sameID \/ nextID <= MaxID
        \* a failed call returns no record
        /\ fail => (sameID /\ blank = {})
        /\ LET o == UpdateCall(forProvider, atProvider, externalName, remote, nextID,
                               fail, sameID, blank, now)
           IN  /\ forProvider' = o.forProvider
               /\ atProvider' = o.atProvider
               /\ externalName' = o.externalName
               /\ remote' = o.remote
               /\ nextID' = o.nextID
               /\ res' = o.res
               /\ UNCHANGED now

Delete ==
    \E fail \in BOOLEAN :
        LET o == DeleteCall(forProvider, atProvider, externalName, remote, nextID, fail)
        IN  /\ forProvider' = o.forProvider
            /\ atProvider' = o.atProvider
            /\ externalName' = o.externalName
            /\ remote' = o.remote
            /\ nextID' = o.nextID
            /\ res' = o.res
            /\ UNCHANGED now

\* Time passes.
Tick ==
    /\ now < MaxTicks
    /\ now' = now + 1
    /\ UNCHANGED <<forProvider, atProvider, externalName, remote, nextID, res>>

\* Somebody revokes the resource's token in the GitLab UI; the service keeps
\* reporting it.
RemoteRevoked ==
    \E id \in 1..MaxID :
        /\ externalName = Itoa(id)
        /\ Present(remote, id)
        /\ ~Deref(remote[id]).Revoked
        /\ remote' = [remote EXCEPT ![id] =
                         Ptr([Deref(@) EXCEPT !.Revoked = TRUE, !.Active = FALSE])]
        /\ UNCHANGED <<now, forProvider, atProvider, externalName, nextID, res>>

Next == Observe \/ Create \/ Update \/ Delete \/ Tick \/ RemoteRevoked

Spec == Init /\ [][Next]_vars

----
\* A Create pass that is cut short after the service made the token and before
\* the resource is written back: the external name and the observation Create
\* set are lost with the pass, and so is its result.
CreateInterrupted ==
    /\ res.op = "Observe" /\ res.err = NoError /\ ~res.ResourceExists
    /\ nextID <= MaxID
    /\ LET o == CreateCall(forProvider, atProvider, externalName, TokenName,
                           remote, nextID, FALSE, {}, now)
       IN  /\ o.res.err = NoError
           /\ remote' = o.remote
           /\ nextID' = o.nextID
           /\ res' = NoResult
           /\ UNCHANGED <<now, forProvider, atProvider, externalName>>

NextInterrupted == Next \/ CreateInterrupted

SpecInterrupted == Init /\ [][NextInterrupted]_vars

----
\* A resource declared for a token the project already has: the user wrote the
\* token's id into the external name, in one of the spellings Atoi reads as 1.
ImportedNames == {<<"1">>, <<"0", "1">>, <<"+", "1">>}

ImportedToken ==
    [ID |-> 1, Name |-> TokenName, Active |-> TRUE, Revoked |-> FALSE,
     CreatedAt |-> Ptr(0), ExpiresAt |-> Ptr(2 * Day),
     AccessLevel |-> ServerDefaultAccessLevel, Token |-> TokenSecret(1)]

InitImported ==
    /\ now = 0
    /\ \E pid \in ProjectIDs, ea \in ExpiresAts, rt \in RotateThresholds,
          al \in AccessLevels :
          forProvider = [ProjectID |-> pid, ExpiresAt |-> ea, RotateThreshold |-> rt,
                         AccessLevel |-> al, Scopes |-> <<"api">>, Name |-> TokenName]
    /\ atProvider = EmptyObservation
    /\ externalName \in ImportedNames
    /\ remote = [id \in 1..MaxID |-> IF id = 1 THEN Ptr(ImportedToken) ELSE Nil]
    /\ nextID = 2
    /\ res = NoResult

SpecImported == InitImported /\ [][Next]_vars

----
\* The methods of AccessTokenObservation on their own, as the unit tests call
\* them: an observation is built from the timestamps, then a method is called
\* on it and res holds what it returned.
ObservedExpiresAts == {Nil} \cup {Ptr(t) : t \in 0..MaxTime}
ObservedCreatedAts == {Nil, Ptr(0), Ptr(Day)}
Durations == (-MaxDuration)..MaxDuration

InitMethods ==
    /\ now \in {0, 1}
    /\ forProvider = [ProjectID |-> Nil, ExpiresAt |-> Nil, RotateThreshold |-> Nil,
                      AccessLevel |-> Nil, Scopes |-> <<"api">>, Name |-> TokenName]
    /\ \E e \in ObservedExpiresAts, c \in ObservedCreatedAts :
          atProvider = [EmptyObservation EXCEPT !.ExpiresAt = e, !.CreatedAt = c]
    /\ externalName = <<>>
    /\ remote = [id \in 1..MaxID |-> Nil]
    /\ nextID = 1
    /\ res = [op |-> "", d |-> 0, value |-> FALSE]

CallExpiresWithin ==
    \E d \in Durations :
        /\ res' = [op |-> "ExpiresWithin", d |-> d,
                   value |-> ExpiresWithin(atProvider, d, now)]
        /\ UNCHANGED <<now, forProvider, atProvider, externalName, remote, nextID>>

CallTotalDuration ==
    /\ res' = [op |-> "TotalDuration", d |-> 0, value |-> TotalDuration(atProvider)]
    /\ UNCHANGED <<now, forProvider, atProvider, externalName, remote, nextID>>

NextMethods == CallExpiresWithin \/ CallTotalDuration

SpecMethods == InitMethods /\ [][NextMethods]_vars

----
\* The record the external name points at, as the service holds it.
BoundID == Atoi(externalName)
BoundPresent == BoundID.ok /\ Present(remote, BoundID.val)
BoundRecord == Deref(remote[BoundID.val])

\* The outcome of an Observe made in the current state, the fetch answered.
ObservedNow ==
    ObserveCall(forProvider, atProvider, externalName, remote, nextID, FALSE, now).res

\* The threshold the caller asked for, or seven days.
EffectiveThreshold(fp) ==
    IF fp.RotateThreshold # Nil THEN Deref(fp.RotateThreshold) ELSE 7 * Day

\* The service returned the record with the expiration the call asked for.
CarriesRequestedExpiry ==
    /\ BoundPresent
    /\ BoundRecord.ExpiresAt = res.calls[1].ExpiresAt

----
\* C1: after a successful Update at time t whose returned record carries the
\* requested expiration, an Observe at the same time t reports upToDate = true,
\* whatever RotateThreshold and the observed TotalDuration are.
C1_FreshlyRotatedIsUpToDate ==
    [][(res'.op = "Update" /\ res'.err = NoError /\ Update /\ CarriesRequestedExpiry')
         => (ObservedNow'.err = NoError /\ ObservedNow'.ResourceUpToDate)]_vars

\* C2: on a successful fetch Observe reports exists = true and
\* upToDate = ~IsRevoked(observed) /\ ~ExpiresWithin(observed, threshold), the
\* threshold being the caller's RotateThreshold, or seven days when unset; a
\* revoked record is never up to date, and one with no expiry is up to date iff
\* it is not revoked.
C2_ObserveUpToDate ==
    [][(res'.op = "Observe" /\ res'.status = 200 /\ Observe)
         => /\ res'.err = NoError
            /\ res'.ResourceExists
            /\ res'.ResourceUpToDate =
                   (~IsRevoked(atProvider')
                    /\ ~ExpiresWithin(atProvider', EffectiveThreshold(forProvider), now))
            /\ (atProvider'.Revoked = Ptr(TRUE) => ~res'.ResourceUpToDate)
            /\ (atProvider'.ExpiresAt = Nil
                   => res'.ResourceUpToDate = (atProvider'.Revoked # Ptr(TRUE)))]_vars

\* C2's case: an Observe with the caller's own threshold found a live token
\* outside the rotation window.
C2_Witness ==
    /\ res.op = "Observe" /\ res.status = 200
    /\ forProvider.RotateThreshold # Nil
    /\ atProvider.ExpiresAt # Nil
    /\ res.ResourceUpToDate

\* C3 as written: once TokenID and the external name are set, no Observe and no
\* Update changes them.
C3_TokenIDNeverChanges ==
    [][(atProvider.TokenID # Nil /\ res'.op \in {"Observe", "Update"}
          /\ (Observe \/ Update))
         => (atProvider'.TokenID = atProvider.TokenID
             /\ externalName' = externalName)]_vars

\* C3 amended: a successful Create sets TokenID to the id of the record created
\* and the external name to its decimal form; Observe, Delete and a failed
\* Update leave both as they are; a successful Update sets both to the id of the
\* record the rotation returned, which may be a new id.
C3_TokenIDFollowsRotation ==
    [][/\ (res'.op = "Create" /\ res'.err = NoError /\ Create)
            => /\ atProvider'.TokenID # Nil
               /\ externalName' = Itoa(Deref(atProvider'.TokenID))
               /\ BoundPresent' /\ BoundRecord'.ID = Deref(atProvider'.TokenID)
       /\ (/\ atProvider.TokenID # Nil
           /\ \/ res'.op = "Observe" /\ Observe
              \/ res'.op = "Delete" /\ Delete
              \/ res'.op = "Update" /\ res'.err # NoError /\ Update)
            => (atProvider'.TokenID = atProvider.TokenID /\ externalName' = externalName)
       /\ (atProvider.TokenID # Nil /\ res'.op = "Update" /\ res'.err = NoError /\ Update)
            => /\ externalName' = Itoa(Deref(atProvider'.TokenID))
               /\ BoundPresent' /\ BoundRecord'.ID = Deref(atProvider'.TokenID)
               /\ ~Present(remote', Deref(atProvider.TokenID))
                   \/ atProvider'.TokenID = atProvider.TokenID]_vars

\* C3's case: a rotation returned a record under a new id and the resource
\* follows it.
C3_Witness ==
    /\ res.op = "Update" /\ res.err = NoError
    /\ atProvider.TokenID = Ptr(2)
    /\ externalName = <<"2">>
    /\ res.calls[1].id = 1

\* C4 as written: a "not found" answer to the revoke call makes Delete return
\* success.
C4_DeleteNotFoundIsSuccess ==
    (res.op = "Delete" /\ res.status = 404) => res.err = NoError

\* C5: in Observe a "not found" answer to the fetch is reported as
\* exists = false without an error, every other failure of the fetch is returned
\* as an error, and both leave ObservedState and DesiredState as they were.
C5_ObserveFetchFailure ==
    [][(res'.op = "Observe" /\ res'.status \notin {0, 200} /\ Observe)
         => /\ (res'.status = 404 => (res'.err = NoError /\ ~res'.ResourceExists))
            /\ (res'.status # 404 => res'.err # NoError)
            /\ forProvider' = forProvider
            /\ atProvider' = atProvider]_vars

\* C5's case: the fetch of a token observed earlier was answered "not found".
C5_Witness ==
    /\ res.op = "Observe" /\ res.status = 404
    /\ atProvider.TokenID # Nil
    /\ ~res.ResourceExists /\ res.err = NoError

\* The errors that reject the resource before any remote call.
ValidationErrors ==
    {errMissingProjectID, errNotAccessToken, errFailedParseID, errExternalNameNotInt}

\* C6 as written: Update with ProjectID unset fails with a validation error and
\* makes no remote call.
C6_UpdateWithoutProjectID ==
    (res.op = "Update" /\ forProvider.ProjectID = Nil)
        => (res.err \in ValidationErrors /\ res.calls = <<>>)

\* A field the caller set differs from the record's.
Drift(fp, at) ==
    \/ fp.AccessLevel # Nil /\ Deref(fp.AccessLevel) # at.AccessLevel
    \/ fp.ExpiresAt # Nil /\ fp.ExpiresAt # at.ExpiresAt

\* The fields the caller set are as they were.
SetFieldsKept ==
    /\ forProvider.AccessLevel # Nil => forProvider'.AccessLevel = forProvider.AccessLevel
    /\ forProvider.ExpiresAt # Nil => forProvider'.ExpiresAt = forProvider.ExpiresAt

\* C7 as written: when a field the caller set differs from the fetched record,
\* Observe leaves the field unchanged and reports upToDate = false.
C7_DriftIsNotUpToDate ==
    [][(res'.op = "Observe" /\ res'.status = 200 /\ Observe
          /\ Drift(forProvider, BoundRecord))
         => (SetFieldsKept /\ ~res'.ResourceUpToDate)]_vars

\* C7 amended: when a field the caller set differs from the fetched record,
\* Observe leaves the field unchanged, and the difference does not enter
\* upToDate, which is true iff the record is not revoked and does not expire
\* within the threshold.
C7_DriftIsKeptAndNotSurfaced ==
    [][(res'.op = "Observe" /\ res'.status = 200 /\ Observe
          /\ Drift(forProvider, BoundRecord))
         => /\ SetFieldsKept
            /\ res'.ResourceUpToDate =
                   (~BoundRecord.Revoked
                    /\ (atProvider'.ExpiresAt = Nil
                        \/ Deref(atProvider'.ExpiresAt)
                             - Abs(EffectiveThreshold(forProvider)) >= now))]_vars

\* C7's case: Observe reported a token up to date whose expiration is not the
\* one the caller set.
C7_Witness ==
    /\ res.op = "Observe" /\ res.status = 200
    /\ BoundPresent /\ Drift(forProvider, BoundRecord)
    /\ forProvider.ExpiresAt = Ptr(2 * Day)
    /\ res.ResourceUpToDate

\* An observation holding the record's fields and nothing else.
FreshObservation(at) ==
    [TokenID |-> Ptr(at.ID), Name |-> Ptr(at.Name), Active |-> Ptr(at.Active),
     Revoked |-> Ptr(at.Revoked), CreatedAt |-> at.CreatedAt,
     ExpiresAt |-> at.ExpiresAt]

\* C8 as written: after a successful Observe every ObservedState field reflects
\* the record just fetched; a timestamp the record lacks is unset.
C8_ObservationReplaced ==
    [][(res'.op = "Observe" /\ res'.status = 200 /\ Observe)
         => atProvider' = FreshObservation(BoundRecord)]_vars

\* C9: an Observe that returns an observation while the record the external
\* name points at exists reports exists = true, and a remote creation is only
\* ever issued when the service holds no token of the resource.
C9_NoSecondCreate ==
    [][/\ (res'.op = "Observe" /\ res'.err = NoError /\ BoundPresent /\ Observe)
            => res'.ResourceExists
       /\ (res'.op = "Create" /\ res'.calls # <<>> /\ Create)
            => \A id \in 1..MaxID : ~Present(remote, id)]_vars

\* C9's case: after a creation, Observe found the token under the persisted name.
C9_Witness ==
    /\ res.op = "Observe" /\ res.err = NoError /\ res.ResourceExists
    /\ nextID > 1 /\ BoundPresent
    /\ externalName = Itoa(Deref(atProvider.TokenID))

\* Midnight UTC at or before t.
MidnightBefore(t) == Day * (t \div Day)

\* The time to live C10 states.
ClaimedTTL(fp, ap) ==
    IF fp.RotateThreshold = Nil THEN TotalDuration(ap)
    ELSE LET twice == 2 * Deref(fp.RotateThreshold)
         IN  IF TotalDuration(ap) > twice THEN TotalDuration(ap) ELSE twice

\* C10: the expiration Update asks for is midnight UTC before now + ttl, ttl
\* being TotalDuration(observed), raised to twice RotateThreshold when that is
\* set; no other step gives ObservedState a timestamp the service did not report.
C10_RequestedExpiry ==
    [][/\ (res'.op = "Update" /\ res'.calls # <<>> /\ Update)
            => res'.calls[1].ExpiresAt
                 = Ptr(MidnightBefore(now + ClaimedTTL(forProvider, atProvider)))
       /\ \/ atProvider'.ExpiresAt = atProvider.ExpiresAt
          \/ \E id \in 1..MaxID : /\ Present(remote', id)
                                  /\ Deref(remote'[id]).ExpiresAt = atProvider'.ExpiresAt
       /\ \/ atProvider'.CreatedAt = atProvider.CreatedAt
          \/ \E id \in 1..MaxID : /\ Present(remote', id)
                                  /\ Deref(remote'[id]).CreatedAt = atProvider'.CreatedAt
      ]_vars

\* C10's case: at 12:00 a rotation with a 30h threshold asked for midnight of
\* day 3, which is now + 60h rounded down.
C10_Witness ==
    /\ res.op = "Update" /\ res.err = NoError
    /\ now = 2
    /\ forProvider.RotateThreshold = Ptr(5)
    /\ res.calls[1].ExpiresAt = Ptr(3 * Day)

\* The fields of the parameters that late initialization may fill.
LateInitFields == {"AccessLevel", "ExpiresAt"}

\* C11: Observe never overwrites a field of the parameters that was set: each
\* of AccessLevel and ExpiresAt that was set keeps its value, also when the
\* fetched record holds another one; a field that was unset takes the record's
\* value, and no other field of the parameters changes.
C11_LateInitFillsOnlyUnset ==
    [][(res'.op = "Observe" /\ Observe)
         => /\ \A f \in LateInitFields :
                  forProvider[f] # Nil => forProvider'[f] = forProvider[f]
            /\ \A f \in DOMAIN forProvider \ LateInitFields :
                  forProvider'[f] = forProvider[f]
            /\ res'.status = 200
                 => /\ forProvider.AccessLevel = Nil
                         => forProvider'.AccessLevel = Ptr(BoundRecord.AccessLevel)
                    /\ forProvider.ExpiresAt = Nil
                         => forProvider'.ExpiresAt = BoundRecord.ExpiresAt
            /\ res'.status # 200 => forProvider' = forProvider]_vars

\* C11's case: Observe filled the unset AccessLevel from the record and kept
\* the expiration the caller set, which is not the record's.
C11_Witness ==
    /\ res.op = "Observe" /\ res.status = 200
    /\ res.ResourceLateInitialized
    /\ BoundPresent
    /\ forProvider.AccessLevel = Ptr(BoundRecord.AccessLevel)
    /\ forProvider.ExpiresAt = Ptr(2 * Day)
    /\ BoundRecord.ExpiresAt \notin {Nil, Ptr(2 * Day)}

\* Observe run once more on the resource as it is, the fetch answering.
ObservedAgain ==
    ObserveCall(forProvider, atProvider, externalName, remote, nextID, FALSE, now)

\* C12: late initialization is idempotent.  After an Observe that fetched the
\* record, a second Observe against the same record leaves the parameters as
\* the first left them and reports lateInitialized = false; and an Observe
\* reports lateInitialized = true exactly when it changed a field of the
\* parameters.
C12_LateInitIdempotent ==
    [][(res'.op = "Observe" /\ Observe)
         => /\ res'.ResourceLateInitialized = (forProvider' # forProvider)
            /\ res'.status = 200
                 => /\ ObservedAgain'.res.status = 200
                    /\ ObservedAgain'.forProvider = forProvider'
                    /\ ~ObservedAgain'.res.ResourceLateInitialized]_vars

\* C12's case: an Observe filled a field and reported it, and the next Observe
\* of the same record changed nothing and reported lateInitialized = false.
C12_Witness ==
    /\ res.op = "Observe" /\ res.status = 200
    /\ ~res.ResourceLateInitialized
    /\ BoundPresent
    /\ forProvider.AccessLevel = Ptr(ServerDefaultAccessLevel)
    /\ forProvider.ExpiresAt = BoundRecord.ExpiresAt
    /\ ObservedAgain.forProvider = forProvider

\* The plaintexts the service can have issued.
Secrets == {TokenSecret(id) : id \in 1..(MaxID + 1)}

\* C13: the plaintext token leaves the client only as the connection detail
\* "token" of a Create or an Update that succeeded, where it is the token of
\* the record now bound.  The observation has no field for it and its Name is
\* never a plaintext, the external name is never a plaintext, and no Observe,
\* no Delete and no failed operation returns connection details.
C13_TokenOnlyInConnectionDetails ==
    /\ "Token" \notin DOMAIN atProvider
    /\ atProvider.Name # Nil => Deref(atProvider.Name) \notin Secrets
    /\ externalName \notin Secrets
    /\ res.ConnectionDetails # Nil
         => /\ res.op \in {"Create", "Update"}
            /\ res.err = NoError
            /\ BoundPresent
            /\ res.ConnectionDetails = Ptr(BoundRecord.Token)
    /\ (res.op \in {"Create", "Update"} /\ res.err = NoError)
         => Deref(res.ConnectionDetails) \in Secrets

\* C13's case: a rotation returned the plaintext of the second token as a
\* connection detail, the external name being the token's id.
C13_Witness ==
    /\ res.op = "Update" /\ res.err = NoError
    /\ res.ConnectionDetails = Ptr(TokenSecret(2))
    /\ externalName = Itoa(2)
    /\ atProvider.TokenID = Ptr(2)

\* C14: Create on a resource whose ProjectID is unset fails with the missing
\* project error before any remote call: the service is untouched, the
\* external name stays unset and the observation is unchanged.
C14_CreateWithoutProjectID ==
    [][(res'.op = "Create" /\ forProvider.ProjectID = Nil /\ Create)
         => /\ res'.err = errMissingProjectID
            /\ res'.calls = <<>>
            /\ res'.ConnectionDetails = Nil
            /\ remote' = remote /\ nextID' = nextID
            /\ externalName' = <<>>
            /\ atProvider' = atProvider
            /\ forProvider' = forProvider]_vars

\* C14's case: a Create was refused for the missing ProjectID.
C14_Witness ==
    /\ res.op = "Create" /\ res.err = errMissingProjectID
    /\ forProvider.ProjectID = Nil
    /\ externalName = <<>>
    /\ atProvider = EmptyObservation

\* A name that is set and is not the text of an integer: some character other
\* than a leading sign is no digit, or no digit follows the sign.
NotAnInteger(en) ==
    /\ en # <<>>
    /\ \/ en \in {<<"+">>, <<"-">>}
       \/ \E i \in 1..Len(en) :
            /\ en[i] \notin {"0", "1", "2", "3", "4", "5", "6", "7", "8", "9"}
            /\ ~(i = 1 /\ en[i] \in {"+", "-"})

\* An operation that stopped before the service was called.
RefusedBeforeCall ==
    /\ res'.calls = <<>>
    /\ remote' = remote /\ nextID' = nextID
    /\ externalName' = externalName
    /\ atProvider' = atProvider /\ forProvider' = forProvider

\* C15: an external name that is set and does not parse as an integer makes
\* Observe, Update and Delete fail with their parse error before any remote
\* call, and an unset external name makes Update and Delete fail before any
\* remote call.
C15_UnparseableNameRefused ==
    [][/\ (res'.op = "Observe" /\ NotAnInteger(externalName) /\ Observe)
            => (res'.err = errFailedParseID /\ RefusedBeforeCall)
       /\ (res'.op = "Update" /\ NotAnInteger(externalName) /\ Update)
            => (res'.err = errFailedParseID /\ RefusedBeforeCall)
       /\ (res'.op = "Delete" /\ NotAnInteger(externalName) /\ Delete)
            => (res'.err = errExternalNameNotInt /\ RefusedBeforeCall)
       /\ (res'.op = "Update" /\ externalName = <<>> /\ Update)
            => (res'.err = errNotAccessToken /\ RefusedBeforeCall)
       /\ (res'.op = "Delete" /\ externalName = <<>> /\ Delete)
            => (res'.err = errExternalNameNotInt /\ RefusedBeforeCall)]_vars

\* C15's case: a Delete of a resource named "a", with a ProjectID, was refused
\* for the name.
C15_Witness ==
    /\ res.op = "Delete" /\ res.err = errExternalNameNotInt
    /\ externalName = <<"a">>
    /\ forProvider.ProjectID # Nil
    /\ res.calls = <<>>

\* C16: Observe of a resource without external name reports, without error,
\* that the resource does not exist; it calls nothing and changes neither the
\* parameters nor the observation nor the service, whatever the parameters
\* hold, an unset ProjectID included.
C16_ObserveUnbound ==
    [][(res'.op = "Observe" /\ externalName = <<>> /\ Observe)
         => /\ res'.err = NoError
            /\ ~res'.ResourceExists
            /\ ~res'.ResourceUpToDate /\ ~res'.ResourceLateInitialized
            /\ res'.ConnectionDetails = Nil
            /\ res'.calls = <<>>
            /\ remote' = remote /\ nextID' = nextID
            /\ externalName' = <<>>
            /\ atProvider' = atProvider
            /\ forProvider' = forProvider]_vars

\* C16's case: a resource with neither external name nor ProjectID was
\* observed as absent.
C16_Witness ==
    /\ res.op = "Observe" /\ res.err = NoError /\ ~res.ResourceExists
    /\ externalName = <<>>
    /\ forProvider.ProjectID = Nil
    /\ res.calls = <<>>

\* The size of a duration, whatever its sign.
Magnitude(d) == IF d >= 0 THEN d ELSE 0 - d

\* C17: ExpiresWithin(d) is false when ExpiresAt is unset, and otherwise true
\* exactly when ExpiresAt - |d| is strictly before now; called next with -d it
\* returns the same, and called next with a duration at least as large in size
\* it does not turn from true to false.
C17_ExpiresWithin ==
    [][(res'.op = "ExpiresWithin" /\ CallExpiresWithin)
         => /\ atProvider.ExpiresAt = Nil => res'.value = FALSE
            /\ atProvider.ExpiresAt # Nil
                 => res'.value = (Deref(atProvider.ExpiresAt) - Magnitude(res'.d) < now)
            /\ (res.op = "ExpiresWithin" /\ res'.d = 0 - res.d)
                 => res'.value = res.value
            /\ (res.op = "ExpiresWithin" /\ Magnitude(res.d) <= Magnitude(res'.d)
                  /\ res.value = TRUE)
                 => res'.value = TRUE]_vars

\* C17's case: a token expiring at midnight in seven days expires within minus
\* eight days.
C17_Witness ==
    /\ res.op = "ExpiresWithin"
    /\ now = 1
    /\ atProvider.ExpiresAt = Ptr(7 * Day)
    /\ res.d = 0 - (8 * Day)
    /\ res.value = TRUE

\* C18: TotalDuration is 365 days when ExpiresAt or CreatedAt is unset, and
\* otherwise ExpiresAt - CreatedAt.
C18_TotalDuration ==
    res.op = "TotalDuration"
      => res.value = IF atProvider.ExpiresAt = Nil \/ atProvider.CreatedAt = Nil
                     THEN 365 * Day
                     ELSE Deref(atProvider.ExpiresAt) - Deref(atProvider.CreatedAt)

\* C18's case: a token created at midnight and expiring 48 hours later lasts
\* two days.
C18_Witness ==
    /\ res.op = "TotalDuration"
    /\ atProvider.CreatedAt = Ptr(Day)
    /\ atProvider.ExpiresAt = Ptr(3 * Day)
    /\ res.value = 2 * Day

\* The tokens the service holds.
TokensPresent == {id \in 1..MaxID : Present(remote, id)}

\* C19 as written: also when a Create pass may be cut short after the remote
\* creation and before the external name is persisted, the passes that follow
\* leave at most one token of the resource on the service.
C19_AtMostOneTokenCreated == Cardinality(TokensPresent) <= 1

\* An operation that returned the record of the token: a Create or an Update
\* without error, or an Observe whose fetch was answered with the record.
ReturnedTheRecord ==
    \/ (res.op \in {"Create", "Update"} /\ res.err = NoError)
    \/ (res.op = "Observe" /\ res.status = 200)

\* C20 as written: after every Create, Update or Observe that returned the
\* record, the external name is set and is the decimal text of the observed
\* TokenID; and while the external name is unset no token has been observed.
C20_NameIsDecimalTokenID ==
    /\ ReturnedTheRecord
         => /\ externalName # <<>>
            /\ atProvider.TokenID # Nil
            /\ externalName = Itoa(Deref(atProvider.TokenID))
    /\ externalName = <<>> => atProvider.TokenID = Nil

\* What a failed remote call leaves of the resource: all of it, and no secret.
NothingChangedLocally ==
    /\ externalName' = externalName
    /\ ~res'.ExternalNameAssigned
    /\ atProvider' = atProvider
    /\ forProvider' = forProvider
    /\ res'.ConnectionDetails = Nil

\* C21: a failed remote call changes nothing locally.  A Create whose remote
\* creation failed returns the creation error, sets no external name, leaves
\* the observation as it was and returns no connection details.  An Update
\* whose remote rotation failed returns the rotation error and leaves the
\* external name and the observation as they were, so that an Observe made
\* next still finds the record the name points at, when the service holds it.
C21_FailedCallChangesNothing ==
    [][/\ (res'.op = "Create" /\ res'.calls # <<>> /\ res'.status # 201 /\ Create)
            => /\ res'.err = errCreateFailed
               /\ NothingChangedLocally
       /\ (res'.op = "Update" /\ res'.calls # <<>> /\ res'.status # 200 /\ Update)
            => /\ res'.err = errRotationFailed
               /\ NothingChangedLocally
               /\ BoundPresent
                    => /\ ObservedAgain'.res.err = NoError
                       /\ ObservedAgain'.res.ResourceExists
                       /\ ObservedAgain'.atProvider.TokenID = Ptr(BoundID.val)
                       /\ ObservedAgain'.externalName = externalName]_vars

\* C21's case: the rotation of a token the resource created failed at the
\* service, and the record is still found under the same name.
C21_Witness ==
    /\ res.op = "Update" /\ res.err = errRotationFailed /\ res.status = 500
    /\ res.ConnectionDetails = Nil
    /\ BoundPresent
    /\ atProvider.TokenID = Ptr(BoundID.val)
    /\ ObservedAgain.res.ResourceExists

\* C22: Observe only reads the service and the identity.  It makes at most one
\* remote call, a fetch, and leaves the service and the external name as they
\* were; it never writes RotateThreshold: when that is unset the comparison
\* takes seven days, RotateThreshold is still unset afterwards, and an Observe
\* that had no field to fill reports lateInitialized = false.
C22_ObserveReadOnly ==
    [][(res'.op = "Observe" /\ Observe)
         => /\ Len(res'.calls) <= 1
            /\ \A i \in 1..Len(res'.calls) : res'.calls[i].fn = "GetProjectAccessToken"
            /\ remote' = remote /\ nextID' = nextID
            /\ externalName' = externalName
            /\ ~res'.ExternalNameAssigned
            /\ forProvider'.RotateThreshold = forProvider.RotateThreshold
            /\ (res'.status = 200 /\ forProvider.RotateThreshold = Nil)
                 => res'.ResourceUpToDate =
                        (~BoundRecord.Revoked
                         /\ (atProvider'.ExpiresAt = Nil
                             \/ Deref(atProvider'.ExpiresAt) - 7 * Day >= now))
            /\ (forProvider.AccessLevel # Nil
                  /\ (forProvider.ExpiresAt # Nil
                      \/ ~BoundPresent \/ BoundRecord.ExpiresAt = Nil))
                 => ~res'.ResourceLateInitialized]_vars

\* C22's case: with RotateThreshold unset, Observe fetched once a live token
\* expiring in two days, found it due for the seven days, and left
\* RotateThreshold unset without reporting a late initialization.
C22_Witness ==
    /\ res.op = "Observe" /\ res.status = 200
    /\ Len(res.calls) = 1
    /\ forProvider.RotateThreshold = Nil
    /\ atProvider.ExpiresAt = Ptr(2 * Day)
    /\ ~IsRevoked(atProvider)
    /\ ~res.ResourceUpToDate
    /\ ~res.ResourceLateInitialized

====
